---- MODULE Spec2Model ----
(***************************************************************************)
(* JA4 fingerprint EdgeWorker: onClientRequest (main.js) decodes the       *)
(* base64 ClientHello of a request, getJA4Fingerprint (util.js) walks the  *)
(* bytes with a cursor and encodes the JA4 string, and the result is       *)
(* stored in PMUSER_JA4_FINGERPRINT.                                       *)
(*                                                                         *)
(* Strings are sequences of character codes (UTF-16 code units), so that   *)
(* padding, lexicographic sorting and joining are computed as JavaScript   *)
(* computes them.  Byte buffers are sequences of 0..255; the code's        *)
(* zero-based offset k is element k + 1.                                   *)
(***************************************************************************)
EXTENDS Integers, Sequences, FiniteSets, TLC

(* ------------------------------ bounds -------------------------------- *)

\* Concurrent invocations of onClientRequest.
NumRequests == 2
\* Longest list of extension records in a generated ClientHello.
MaxExtensions == 2
\* Longest list of cipher suites in a generated ClientHello (small hellos).
MaxCipherSuites == 2
\* Cipher suites in the one large ClientHello.
WideCipherCount == 100

Requests == 1..NumRequests

(* --------------------------- string helpers --------------------------- *)

\* Number.prototype.toString(radix), digits 0-9 then a-z, for n >= 0.
RECURSIVE ToStringRadix(_, _)
ToStringRadix(n, radix) ==
  LET d == n % radix
      ch == IF d < 10 THEN 48 + d ELSE 87 + d
  IN IF n < radix THEN <<ch>> ELSE ToStringRadix(n \div radix, radix) \o <<ch>>

\* String.prototype.padStart(targetLength, padChar) with a 1-character pad:
\* a string already that long or longer is returned unchanged.
PadStart(s, targetLength, padChar) ==
  IF Len(s) >= targetLength THEN s
  ELSE [k \in 1..(targetLength - Len(s)) |-> padChar] \o s

\* value.toString(16).padStart(4, '0')
Hex4(value) == PadStart(ToStringRadix(value, 16), 4, 48)

\* Array.prototype.join(sep), computed by halves to keep the recursion shallow.
RECURSIVE JoinRange(_, _, _, _)
JoinRange(strs, sep, lo, hi) ==
  IF lo > hi THEN <<>>
  ELSE IF lo = hi THEN strs[lo]
  ELSE LET mid == (lo + hi) \div 2
       IN JoinRange(strs, sep, lo, mid) \o sep \o JoinRange(strs, sep, mid + 1, hi)

Join(strs, sep) == JoinRange(strs, sep, 1, Len(strs))

\* The default comparison of Array.prototype.sort: strings by code units.
RECURSIVE LexLess(_, _)
LexLess(a, b) ==
  IF b = <<>> THEN FALSE
  ELSE IF a = <<>> THEN TRUE
  ELSE IF a[1] # b[1] THEN a[1] < b[1]
  ELSE LexLess(Tail(a), Tail(b))

\* strs.sort() with the default comparison: the element at position p of
\* the input goes to place Rank(strs, p) (equal strings keep their order).
Rank(strs, p) ==
  1 + Cardinality({ q \in 1..Len(strs) :
                      \/ LexLess(strs[q], strs[p])
                      \/ (q < p /\ strs[q] = strs[p]) })

SortStrings(strs) ==
  [k \in 1..Len(strs) |-> strs[CHOOSE p \in 1..Len(strs) : Rank(strs, p) = k]]

\* nums.sort((a, b) => b - a): descending, by the same placement.
RankDescending(nums, p) ==
  1 + Cardinality({ q \in 1..Len(nums) :
                      \/ nums[q] > nums[p]
                      \/ (q < p /\ nums[q] = nums[p]) })

SortDescending(nums) ==
  [k \in 1..Len(nums) |-> nums[CHOOSE p \in 1..Len(nums) : RankDescending(nums, p) = k]]

(* ------------------------------ tables -------------------------------- *)

\* "0x" followed by the 4 hex digits: the key form of TLS_MAPPER.
VersionKey(value) == <<48, 120>> \o Hex4(value)

\* 0x0002:'s2' 0x0300:'s3' 0x0301:'10' 0x0302:'11' 0x0303:'12' 0x0304:'13'
TLS_MAPPER ==
  { [key |-> VersionKey(2),   value |-> <<115, 50>>],
    [key |-> VersionKey(768), value |-> <<115, 51>>],
    [key |-> VersionKey(769), value |-> <<49, 48>>],
    [key |-> VersionKey(770), value |-> <<49, 49>>],
    [key |-> VersionKey(771), value |-> <<49, 50>>],
    [key |-> VersionKey(772), value |-> <<49, 51>>] }

\* TLS_MAPPER[key] || '00'
MapVersion(key) ==
  IF \E e \in TLS_MAPPER : e.key = key
  THEN (CHOOSE e \in TLS_MAPPER : e.key = key).value
  ELSE <<48, 48>>

\* GREASE_VALUES without 0x0a0a (a table with one entry lost).
GREASE_VALUES_Missing0a0a == { 4096 * n + 2560 + 16 * n + 10 : n \in 1..15 }

\* 0x0a0a, 0x1a1a, ..., 0xfafa
GREASE_VALUES == { 4096 * n + 2560 + 16 * n + 10 : n \in 0..15 }

\* isPrintableAscii with the upper bound excluded.
isPrintableAsciiStrict(charCode) == charCode >= 32 /\ charCode < 126

isPrintableAscii(charCode) == charCode >= 32 /\ charCode <= 126

(* ---------------------------- DataView reads -------------------------- *)

\* DataView.getUint8 / getUint16 throw RangeError outside the buffer.
CanGetUint8(buffer, offset) == offset >= 0 /\ offset + 1 <= Len(buffer)
CanGetUint16(buffer, offset) == offset >= 0 /\ offset + 2 <= Len(buffer)
getUint8(buffer, offset) == buffer[offset + 1]
getUint16(buffer, offset) == buffer[offset + 1] * 256 + buffer[offset + 2]

\* for (let i = 0; i < length; i += 2) { getUint16(start + i) ... }: the
\* number of iterations the loop asks for, and how many of its reads are
\* inside the buffer (the reads go upwards, so the first failure ends it).
LoopIterations(length) == (length + 1) \div 2
ReadableIterations(buffer, start, length) ==
  LET fit == IF Len(buffer) >= start THEN (Len(buffer) - start) \div 2 ELSE 0
  IN IF fit < LoopIterations(length) THEN fit ELSE LoopIterations(length)
LoopThrows(buffer, start, length) ==
  ReadableIterations(buffer, start, length) < LoopIterations(length)
LoopValues(buffer, start, length) ==
  [k \in 1..ReadableIterations(buffer, start, length) |->
     getUint16(buffer, start + 2 * (k - 1))]

NotGrease(value) == value \notin GREASE_VALUES

(* ------------------------------ base64 -------------------------------- *)

\* Value of a base64 alphabet character (A-Z a-z 0-9 + /), -1 for any other.
B64Index(ch) ==
  IF ch >= 65 /\ ch <= 90 THEN ch - 65
  ELSE IF ch >= 97 /\ ch <= 122 THEN ch - 71
  ELSE IF ch >= 48 /\ ch <= 57 THEN ch + 4
  ELSE IF ch = 43 THEN 62
  ELSE IF ch = 47 THEN 63
  ELSE -1

\* atob: ASCII whitespace is removed, then up to two trailing '=' of a text
\* whose length is a multiple of 4.
AtobStripped(text) ==
  LET s == SelectSeq(text, LAMBDA ch : ch \notin {9, 10, 12, 13, 32})
      n == Len(s)
  IN IF n > 0 /\ n % 4 = 0 /\ s[n] = 61
     THEN IF s[n - 1] = 61 THEN SubSeq(s, 1, n - 2) ELSE SubSeq(s, 1, n - 1)
     ELSE s

\* atob throws on a length of 1 mod 4 and on any non-alphabet character
\* (s is the text after AtobStripped).
AtobThrows(s) ==
  Len(s) % 4 = 1 \/ \E k \in 1..Len(s) : B64Index(s[k]) < 0

\* The length of the binary string atob returns: 6 bits per character, whole
\* bytes only; and the code of its character at index i (from 0).
AtobLength(s) == (Len(s) * 6) \div 8
AtobCharCodeAt(s, i) ==
  LET g == 4 * (i \div 3)
      c1 == B64Index(s[g + 1])
      c2 == B64Index(s[g + 2])
      c3 == IF g + 3 <= Len(s) THEN B64Index(s[g + 3]) ELSE 0
      c4 == IF g + 4 <= Len(s) THEN B64Index(s[g + 4]) ELSE 0
  IN CASE i % 3 = 0 -> c1 * 4 + c2 \div 16
       [] i % 3 = 1 -> (c2 % 16) * 16 + c3 \div 4
       [] OTHER     -> (c3 % 4) * 64 + c4

\* base64toUint8Array: bytes[i] = binary_string.charCodeAt(i), for the
\* binary string of the stripped text s.
base64toUint8Array(s) ==
  [k \in 1..AtobLength(s) |-> AtobCharCodeAt(s, k - 1) % 256]

(* --------------------------- truncatedHash ---------------------------- *)

\* crypto.subtle.digest('SHA-256', ...) is a platform primitive.  It is
\* represented by a deterministic 32-byte checksum of the encoded string:
\* what the program relies on is that the digest is a function of its input
\* and 32 bytes long.
RECURSIVE DigestByte(_, _, _, _)
DigestByte(encoded, lo, hi, j) ==
  IF lo > hi THEN (j * j) % 256
  ELSE IF lo = hi THEN (encoded[lo] * (2 * j + 1) + 13 * lo + j * j) % 256
  ELSE LET mid == (lo + hi) \div 2
       IN (DigestByte(encoded, lo, mid, j) * 31
             + DigestByte(encoded, mid + 1, hi, j) + 1) % 256

\* Byte j (from 1) of the 32-byte digest.
Digest(encoded, j) == DigestByte(encoded, 1, Len(encoded), j)

\* hashArray.map(b => b.toString(16).padStart(2, '0')).join('').substring(0, 12):
\* character k (from 1) of the joined string is a digit of byte (k + 1) \div 2.
truncatedHash(data) ==
  [k \in 1..12 |->
     PadStart(ToStringRadix(Digest(data, (k + 1) \div 2), 16), 2, 48)[2 - (k % 2)]]

(* ----------------------- ClientHello wire format ---------------------- *)

U16Bytes(v) == <<v \div 256, v % 256>>

RECURSIVE Concat(_)
Concat(seqs) == IF seqs = <<>> THEN <<>> ELSE seqs[1] \o Concat(Tail(seqs))

Flatten16(values) ==
  [k \in 1..(2 * Len(values)) |->
     IF k % 2 = 1 THEN values[(k + 1) \div 2] \div 256
                  ELSE values[k \div 2] % 256]

\* A ClientHello with every length field given explicitly: handshake type
\* and 24-bit length, legacy version, 32-byte random, session id, cipher
\* suites, compression methods, extensions.
RawHello(legacy, sidLen, sid, csLen, csBytes, compLen, comp, extLen, extBytes) ==
  LET body == U16Bytes(legacy) \o [k \in 1..32 |-> k]
              \o <<sidLen>> \o sid
              \o U16Bytes(csLen) \o csBytes
              \o <<compLen>> \o comp
              \o U16Bytes(extLen) \o extBytes
  IN <<1, 0>> \o U16Bytes(Len(body)) \o body

\* A ClientHello whose length fields are the true lengths.
ClientHello(legacy, sid, ciphers, comp, extRecords) ==
  LET extBytes == Concat(extRecords)
  IN RawHello(legacy, Len(sid), sid, 2 * Len(ciphers), Flatten16(ciphers),
              Len(comp), comp, Len(extBytes), extBytes)

\* An extension record: 2-byte type, 2-byte length, payload.
Ext(type, payload) == U16Bytes(type) \o U16Bytes(Len(payload)) \o payload

SniExt == Ext(0, <<>>)
AlpnH2 == Ext(16, <<0, 3, 2, 104, 50>>)
AlpnTilde == Ext(16, <<0, 2, 1, 126>>)
AlpnBinary == Ext(16, <<0, 3, 2, 171, 31>>)
AlpnEmptyList == Ext(16, <<0, 0>>)
AlpnEmptyProtocol == Ext(16, <<0, 1, 0>>)
VersionsTls13 == Ext(43, <<4, 3, 3, 3, 4>>)
VersionsGreaseOnly == Ext(43, <<2, 10, 10>>)
VersionsGreaseTls10 == Ext(43, <<4, 10, 10, 3, 1>>)
VersionsUnknown == Ext(43, <<2, 127, 28>>)
SigAlgs == Ext(13, <<0, 4, 8, 4, 4, 3>>)
SigAlgsGrease == Ext(13, <<0, 4, 10, 10, 4, 3>>)
GreaseExt == Ext(2570, <<>>)
EmsExt == Ext(23, <<>>)
RenegotiationExt == Ext(65281, <<0>>)
\* A session-ticket record declaring 5 payload bytes and carrying none.
OverlongExt == U16Bytes(35) \o U16Bytes(5)

ExtPool ==
  { SniExt, AlpnH2, AlpnTilde, AlpnBinary, AlpnEmptyList, AlpnEmptyProtocol,
    VersionsTls13, VersionsGreaseOnly, VersionsGreaseTls10, VersionsUnknown,
    SigAlgs, SigAlgsGrease, GreaseExt, EmsExt, RenegotiationExt, OverlongExt }

\* The records every short sequence is enumerated over; the remaining records
\* of ExtPool are carried by AllRecordsHello and LegacyHellos.
EnumeratedPool ==
  ExtPool \ { AlpnEmptyProtocol, VersionsGreaseOnly, VersionsUnknown, EmsExt }

CipherPool == { 4865, 255, 2570 }

SeqsUpTo(S, n) == UNION { [1..k -> S] : k \in 0..n }

\* btoa: the base64 text of a byte buffer, as the platform delivers it.
B64Char(v) ==
  IF v < 26 THEN 65 + v
  ELSE IF v < 52 THEN 71 + v
  ELSE IF v < 62 THEN v - 4
  ELSE IF v = 62 THEN 43 ELSE 47

btoa(bytes) ==
  LET n == Len(bytes)
      b(j) == IF j <= n THEN bytes[j] ELSE 0
      char(q) ==
        LET g == 3 * (q \div 4)
        IN CASE q % 4 = 0 -> B64Char(b(g + 1) \div 4)
             [] q % 4 = 1 -> B64Char((b(g + 1) % 4) * 16 + b(g + 2) \div 16)
             [] q % 4 = 2 -> IF g + 2 > n THEN 61
                             ELSE B64Char((b(g + 2) % 16) * 4 + b(g + 3) \div 64)
             [] OTHER     -> IF g + 3 > n THEN 61 ELSE B64Char(b(g + 3) % 64)
  IN [k \in 1..(4 * ((n + 2) \div 3)) |-> char(k - 1)]

(* ------------------------------- state -------------------------------- *)

VARIABLES
  client_hello,     \* PMUSER_TLS_CLIENT_HELLO of each request
  quic_version,     \* PMUSER_QUIC_VERSION of each request
  ja4_fingerprint,  \* PMUSER_JA4_FINGERPRINT of each request
  setCalls,         \* calls of request.setVariable made for each request
  pc,               \* where each invocation of onClientRequest stands
  running,          \* the invocation holding the JavaScript thread, 0 if none
  frame,            \* the local variables of each getJA4Fingerprint call
  outcome           \* the promise returned by each onClientRequest call

vars == <<client_hello, quic_version, ja4_fingerprint, setCalls, pc, running,
          frame, outcome>>

\* A request variable or return value: undefined, or a string.
Undefined == [defined |-> FALSE, value |-> <<>>]
Str(s) == [defined |-> TRUE, value |-> s]
\* JavaScript truthiness of such a value: undefined and '' are falsy.
Truthy(v) == v.defined /\ v.value # <<>>

Pending == [state |-> "pending", value |-> Undefined, error |-> "none"]
Fulfilled(v) == [state |-> "fulfilled", value |-> v, error |-> "none"]
Rejected(e) == [state |-> "rejected", value |-> Undefined, error |-> e]

\* The locals of getJA4Fingerprint before the call.
InitFrame ==
  [ buffer |-> <<>>, decoded |-> FALSE, proto |-> "none", currentIndex |-> 0,
    tlsMappedVersion |-> <<>>, cipherSuitesLength |-> 0, i |-> 0,
    cipherSuites |-> <<>>, extensionsList |-> <<>>, sni |-> <<>>, alpn |-> <<>>,
    signatureAlgorithms |-> <<>>, supportedVersions |-> <<>>,
    extensionsEndIndex |-> 0, numCiphers |-> <<>>, numExtensions |-> <<>>,
    cipherSuitesString |-> <<>>, ja4CipherHash |-> <<>>, hashExtensions |-> <<>>,
    extensionHashInput |-> <<>>, ja4ExtensionHash |-> <<>>, ja4Base |-> <<>>,
    ja4 |-> <<>>, error |-> "none" ]

(* ------------------------------- inputs ------------------------------- *)

QuicVersions == { Undefined, Str(<<>>), Str(<<49>>) }

\* Every sequence of at most MaxExtensions records of EnumeratedPool.
EnumeratedHellos ==
  { ClientHello(771, <<>>, <<4865>>, <<0>>, recs) :
      recs \in SeqsUpTo(EnumeratedPool, MaxExtensions) }

\* Legacy versions against Supported Versions extensions.
LegacyHellos ==
  { ClientHello(legacy, <<>>, <<4865>>, <<0>>, recs) :
      legacy \in {769, 4660, 2}, recs \in {<<>>, <<VersionsTls13>>, <<VersionsGreaseOnly>>} }

\* Every sequence of at most MaxCipherSuites cipher suites of CipherPool,
\* after a 2-byte session id.
CipherHellos ==
  { ClientHello(771, <<7, 7>>, ciphers, <<0>>, <<SniExt, AlpnH2>>) :
      ciphers \in SeqsUpTo(CipherPool, MaxCipherSuites) }

\* WideCipherCount distinct cipher suites, in descending order on the wire.
WideHello ==
  ClientHello(771, <<>>, [k \in 1..WideCipherCount |-> 4865 + WideCipherCount - k],
              <<0>>, <<SniExt>>)

BaseHello ==
  ClientHello(771, <<>>, <<4865, 255>>, <<0>>,
              <<SniExt, AlpnH2, VersionsTls13, SigAlgs, RenegotiationExt>>)

\* The same records in another wire order.
PermutedHello ==
  ClientHello(771, <<>>, <<4865, 255>>, <<0>>,
              <<RenegotiationExt, SigAlgs, AlpnH2, SniExt, VersionsTls13>>)

\* Every record of ExtPool in one ClientHello, the overlong one last; and the
\* overlong record swallowing the records that follow it.
AllRecordsHello ==
  ClientHello(771, <<>>, <<4865>>, <<0>>,
              <<GreaseExt, SniExt, EmsExt, AlpnEmptyList, AlpnEmptyProtocol,
                AlpnBinary, AlpnTilde, AlpnH2, VersionsGreaseOnly, VersionsUnknown,
                VersionsGreaseTls10, VersionsTls13, SigAlgsGrease, SigAlgs,
                RenegotiationExt, OverlongExt>>)
SwallowingHello ==
  ClientHello(771, <<>>, <<4865>>, <<0>>, <<GreaseExt, OverlongExt, SniExt, EmsExt>>)

\* BaseHello cut short at every length.
TruncatedHellos == { SubSeq(BaseHello, 1, n) : n \in 0..(Len(BaseHello) - 1) }

\* Length fields that disagree with the bytes that follow them.
MislengthHellos ==
  { RawHello(771, 200, <<>>, 2, <<19, 1>>, 1, <<0>>, 4, SniExt),
    RawHello(771, 0, <<>>, 200, <<19, 1>>, 1, <<0>>, 4, SniExt),
    RawHello(771, 0, <<>>, 3, <<19, 1, 0, 255>>, 1, <<0>>, 4, SniExt),
    RawHello(771, 0, <<>>, 2, <<19, 1>>, 200, <<0>>, 4, SniExt),
    RawHello(771, 0, <<>>, 2, <<19, 1>>, 1, <<0>>, 200, SniExt),
    RawHello(771, 0, <<>>, 2, <<19, 1>>, 1, <<0>>, 4, SniExt \o AlpnH2) }

\* The ClientHellos of the termination check: every read can fail (all
\* truncations), lengths can lie, records can be empty or GREASE.
LoopHellos ==
  CipherHellos \cup {BaseHello, AllRecordsHello, SwallowingHello}
    \cup TruncatedHellos \cup MislengthHellos

Hellos == EnumeratedHellos \cup LegacyHellos \cup {WideHello, PermutedHello} \cup LoopHellos

\* Texts atob rejects: a character outside the alphabet, a length of 1 mod 4.
BadBase64 == { btoa(BaseHello) \o <<42>>, <<65>> \o btoa(BaseHello) }

HelloInputs ==
  { Undefined, Str(<<>>) } \cup { Str(btoa(h)) : h \in Hellos }
    \cup { Str(t) : t \in BadBase64 }

\* What the request of a single run may carry: every input without
\* PMUSER_QUIC_VERSION, and with it the inputs whose outcome is checked
\* against the protocol hint.
SingleCases ==
  { [hello |-> h, quic |-> Undefined] : h \in HelloInputs }
    \cup { [hello |-> h, quic |-> q] :
             h \in { Undefined, Str(<<>>), Str(btoa(BaseHello)), Str(btoa(PermutedHello)) },
             q \in QuicVersions }

\* What every request of a concurrent run may carry.
ConcurrentCases ==
  { [hello |-> Str(btoa(BaseHello)), quic |-> Undefined],
    [hello |-> Str(btoa(BaseHello)), quic |-> Str(<<49>>)],
    [hello |-> Str(btoa(SubSeq(BaseHello, 1, 60))), quic |-> Undefined] }

InitCommon ==
  /\ ja4_fingerprint = [r \in Requests |-> Undefined]
  /\ setCalls = [r \in Requests |-> 0]
  /\ pc = [r \in Requests |-> "idle"]
  /\ running = 0
  /\ frame = [r \in Requests |-> InitFrame]
  /\ outcome = [r \in Requests |-> Pending]

\* One request with any of the inputs; the others arrive without ClientHello.
Init ==
  /\ \E c \in SingleCases :
       /\ client_hello = [r \in Requests |-> IF r = 1 THEN c.hello ELSE Undefined]
       /\ quic_version = [r \in Requests |-> IF r = 1 THEN c.quic ELSE Undefined]
  /\ InitCommon

\* One request with a ClientHello of LoopHellos.
InitLoops ==
  /\ \E h \in LoopHellos :
       /\ client_hello = [r \in Requests |-> IF r = 1 THEN Str(btoa(h)) ELSE Undefined]
       /\ quic_version = [r \in Requests |-> Undefined]
  /\ InitCommon

\* Every request carries a ClientHello of ConcurrentCases.
InitConcurrent ==
  /\ \E c \in [Requests -> ConcurrentCases] :
       /\ client_hello = [r \in Requests |-> c[r].hello]
       /\ quic_version = [r \in Requests |-> c[r].quic]
  /\ InitCommon

(* --------------------------- getJA4Fingerprint ------------------------ *)

\* A step of the invocation that holds the thread: its locals become f.
Continue(self, fr, next) ==
  /\ frame' = fr
  /\ pc' = [pc EXCEPT ![self] = next]
  /\ UNCHANGED running

\* An exception inside the try block: the catch logs it and rethrows, so the
\* promise of getJA4Fingerprint is rejected and the thread is released.
Throw(self, fr, err) ==
  /\ frame' = [fr EXCEPT ![self].error = err]
  /\ pc' = [pc EXCEPT ![self] = "settled"]
  /\ running' = 0

\* The call suspends at an await (or settles its promise): the thread is free.
Suspend(self, fr, next) ==
  /\ frame' = fr
  /\ pc' = [pc EXCEPT ![self] = next]
  /\ running' = 0

RequestVarsUnchanged ==
  UNCHANGED <<client_hello, quic_version, ja4_fingerprint, setCalls, outcome>>

\* extensionsList kept in one array shared by all invocations.
PushExtensionShared(fr, self, extTypeHex) ==
  [r \in DOMAIN fr |-> [fr[r] EXCEPT !.extensionsList = Append(@, extTypeHex)]]

\* extensionsList.push(extTypeHex), on the array of this invocation.
PushExtension(fr, self, extTypeHex) ==
  [fr EXCEPT ![self].extensionsList = Append(@, extTypeHex)]

\* The ALPN code of a protocol from its first and last byte.
AlpnCode(firstChar, lastChar) ==
  IF isPrintableAscii(firstChar) /\ isPrintableAscii(lastChar)
  THEN <<firstChar, lastChar>>
  ELSE ToStringRadix((firstChar \div 16) % 16, 16) \o ToStringRadix(lastChar % 16, 16)

\* The ALPN branch of the extension loop, payload at offset idx.
AlpnBranch(f, idx) ==
  LET buf == f.buffer
      alpnListLength == getUint16(buf, idx)
      alpnOffset == idx + 2
      alpnEndOffset == alpnOffset + alpnListLength
      protocolLength == getUint8(buf, alpnOffset)
      firstChar == getUint8(buf, alpnOffset + 1)
      lastChar == getUint8(buf, alpnOffset + 1 + protocolLength - 1)
  IN IF ~CanGetUint16(buf, idx) THEN [threw |-> TRUE, f |-> f]
     ELSE IF ~(alpnOffset < alpnEndOffset) THEN [threw |-> FALSE, f |-> f]
     ELSE IF ~CanGetUint8(buf, alpnOffset) THEN [threw |-> TRUE, f |-> f]
     ELSE IF ~(protocolLength > 0) THEN [threw |-> FALSE, f |-> f]
     ELSE IF ~CanGetUint8(buf, alpnOffset + 1)
             \/ ~CanGetUint8(buf, alpnOffset + 1 + protocolLength - 1)
          THEN [threw |-> TRUE, f |-> f]
     ELSE [threw |-> FALSE, f |-> [f EXCEPT !.alpn = AlpnCode(firstChar, lastChar)]]

\* The Supported Versions branch: 1-byte list length, then 16-bit values.
SupportedVersionsBranch(f, idx) ==
  LET buf == f.buffer
      supportedVersionsLength == getUint8(buf, idx)
      versions == LoopValues(buf, idx + 1, supportedVersionsLength)
  IN IF ~CanGetUint8(buf, idx) THEN [threw |-> TRUE, f |-> f]
     ELSE [threw |-> LoopThrows(buf, idx + 1, supportedVersionsLength),
           f |-> [f EXCEPT !.supportedVersions = @ \o SelectSeq(versions, NotGrease)]]

\* The Signature Algorithms branch: 2-byte list length, then 16-bit values.
SignatureAlgorithmsBranch(f, idx) ==
  LET buf == f.buffer
      sigAlgLength == getUint16(buf, idx)
      algs == SelectSeq(LoopValues(buf, idx + 2, sigAlgLength), NotGrease)
  IN IF ~CanGetUint16(buf, idx) THEN [threw |-> TRUE, f |-> f]
     ELSE [threw |-> LoopThrows(buf, idx + 2, sigAlgLength),
           f |-> [f EXCEPT !.signatureAlgorithms =
                              @ \o [k \in 1..Len(algs) |-> Hex4(algs[k])]]]

\* The dispatch on the type of a non-GREASE extension record.
Dispatch(f, extType, idx) ==
  IF extType = 0 THEN [threw |-> FALSE, f |-> [f EXCEPT !.sni = <<100>>]]
  ELSE IF extType = 16 THEN AlpnBranch(f, idx)
  ELSE IF extType = 43 THEN SupportedVersionsBranch(f, idx)
  ELSE IF extType = 13 THEN SignatureAlgorithmsBranch(f, idx)
  ELSE [threw |-> FALSE, f |-> f]

\* currentIndex += extLength
SkipRecord(idx, extLength) == idx + extLength

\* The cursor moved past the type of a record only.
AfterHeaderShort(currentIndex) == currentIndex + 2

\* currentIndex += 4, past the type and length of a record
AfterHeader(currentIndex) == currentIndex + 4

\* The first element of the list sorted the other way (comparator reversed).
HighestVersionAscending(supportedVersions) ==
  SortDescending(supportedVersions)[Len(supportedVersions)]

\* supportedVersions.sort((a, b) => b - a)[0]
HighestVersion(supportedVersions) == SortDescending(supportedVersions)[1]

\* The filter with the ALPN code forgotten.
FilterHashExtensionsSniOnly(extensionsList) ==
  SelectSeq(extensionsList, LAMBDA ext : ext # Hex4(0))

\* extensionsList.filter(ext => ext !== '0000' && ext !== '0010')
FilterHashExtensions(extensionsList) ==
  SelectSeq(extensionsList, LAMBDA ext : ext # Hex4(0) /\ ext # Hex4(16))

\* length.toString().padStart(2, '0')
CountString(length) == PadStart(ToStringRadix(length, 10), 2, 48)

\* let currentIndex = 4; read the legacy version; currentIndex += 34
ReadVersion(self) ==
  /\ pc[self] = "version" /\ running = self
  /\ LET f == frame[self] IN
       IF CanGetUint16(f.buffer, 4)
       THEN Continue(self,
              [frame EXCEPT ![self] =
                 [f EXCEPT !.tlsMappedVersion = MapVersion(VersionKey(getUint16(f.buffer, 4))),
                           !.currentIndex = 4 + 34]],
              "sessionID")
       ELSE Throw(self, [frame EXCEPT ![self].currentIndex = 4], "RangeError")
  /\ RequestVarsUnchanged

\* Skip the session id.
ReadSessionID(self) ==
  /\ pc[self] = "sessionID" /\ running = self
  /\ LET f == frame[self] IN
       IF CanGetUint8(f.buffer, f.currentIndex)
       THEN Continue(self,
              [frame EXCEPT ![self].currentIndex =
                 @ + 1 + getUint8(f.buffer, f.currentIndex)],
              "cipherSuitesLength")
       ELSE Throw(self, frame, "RangeError")
  /\ RequestVarsUnchanged

\* Read the cipher-suites length; the loop starts with i = 0.
ReadCipherSuitesLength(self) ==
  /\ pc[self] = "cipherSuitesLength" /\ running = self
  /\ LET f == frame[self] IN
       IF CanGetUint16(f.buffer, f.currentIndex)
       THEN Continue(self,
              [frame EXCEPT ![self] =
                 [f EXCEPT !.cipherSuitesLength = getUint16(f.buffer, f.currentIndex),
                           !.currentIndex = @ + 2,
                           !.i = 0,
                           !.cipherSuites = <<>>]],
              "cipherLoop")
       ELSE Throw(self, frame, "RangeError")
  /\ RequestVarsUnchanged

\* One test of the cipher loop: an iteration, or the exit past the list.
CipherLoop(self) ==
  /\ pc[self] = "cipherLoop" /\ running = self
  /\ LET f == frame[self] IN
       IF f.i < f.cipherSuitesLength
       THEN IF CanGetUint16(f.buffer, f.currentIndex + f.i)
            THEN LET cipher == getUint16(f.buffer, f.currentIndex + f.i) IN
                 Continue(self,
                   [frame EXCEPT ![self] =
                      [f EXCEPT !.cipherSuites =
                                  IF NotGrease(cipher) THEN Append(@, Hex4(cipher)) ELSE @,
                                !.i = @ + 2]],
                   "cipherLoop")
            ELSE Throw(self, frame, "RangeError")
       ELSE Continue(self,
              [frame EXCEPT ![self].currentIndex = @ + f.cipherSuitesLength],
              "compressionMethods")
  /\ RequestVarsUnchanged

\* Skip the compression methods.
ReadCompressionMethods(self) ==
  /\ pc[self] = "compressionMethods" /\ running = self
  /\ LET f == frame[self] IN
       IF CanGetUint8(f.buffer, f.currentIndex)
       THEN Continue(self,
              [frame EXCEPT ![self].currentIndex =
                 @ + 1 + getUint8(f.buffer, f.currentIndex)],
              "extensionsLength")
       ELSE Throw(self, frame, "RangeError")
  /\ RequestVarsUnchanged

\* Read the extensions length and initialise the lists of the extension loop.
ReadExtensionsLength(self) ==
  /\ pc[self] = "extensionsLength" /\ running = self
  /\ LET f == frame[self] IN
       IF CanGetUint16(f.buffer, f.currentIndex)
       THEN Continue(self,
              [frame EXCEPT ![self] =
                 [f EXCEPT !.currentIndex = @ + 2,
                           !.extensionsList = <<>>,
                           !.sni = <<105>>,
                           !.alpn = <<48, 48>>,
                           !.signatureAlgorithms = <<>>,
                           !.supportedVersions = <<>>,
                           !.extensionsEndIndex =
                              f.currentIndex + 2 + getUint16(f.buffer, f.currentIndex)]],
              "extensionLoop")
       ELSE Throw(self, frame, "RangeError")
  /\ RequestVarsUnchanged

\* One test of the extension loop: a whole record, or the exit.
ExtensionLoop(self) ==
  /\ pc[self] = "extensionLoop" /\ running = self
  /\ LET f == frame[self] IN
       IF f.currentIndex < f.extensionsEndIndex
       THEN IF CanGetUint16(f.buffer, f.currentIndex)
               /\ CanGetUint16(f.buffer, f.currentIndex + 2)
            THEN LET extType == getUint16(f.buffer, f.currentIndex)
                     extLength == getUint16(f.buffer, f.currentIndex + 2)
                     idx == AfterHeader(f.currentIndex)
                     pushed == IF NotGrease(extType)
                               THEN PushExtension(frame, self, Hex4(extType))
                               ELSE frame
                     at == [pushed[self] EXCEPT !.currentIndex = idx]
                     d == IF NotGrease(extType)
                          THEN Dispatch(at, extType, idx)
                          ELSE [threw |-> FALSE, f |-> at]
                 IN IF d.threw
                    THEN Throw(self, [pushed EXCEPT ![self] = d.f], "RangeError")
                    ELSE Continue(self,
                           [pushed EXCEPT ![self] =
                              [d.f EXCEPT !.currentIndex = SkipRecord(idx, extLength)]],
                           "extensionLoop")
            ELSE Throw(self, frame, "RangeError")
       ELSE Continue(self, frame, "encode")
  /\ RequestVarsUnchanged

\* The ja4Base of a frame: ptype, version, sni, counts, alpn.
Ja4Base(f) ==
  (IF f.proto = "quic" THEN <<113>> ELSE <<116>>)
    \o f.tlsMappedVersion \o f.sni \o f.numCiphers \o f.numExtensions \o f.alpn

\* From the end of the extension loop to the first await: the version, the
\* two counts, the sorted cipher string, and the call of truncatedHash.
Encode(self) ==
  /\ pc[self] = "encode" /\ running = self
  /\ \E f \in {frame[self]} : \E sorted \in {SortStrings(f.cipherSuites)} :
        Suspend(self,
          [frame EXCEPT ![self] =
             [f EXCEPT !.tlsMappedVersion =
                         IF Len(f.supportedVersions) > 0
                         THEN MapVersion(VersionKey(HighestVersion(f.supportedVersions)))
                         ELSE @,
                       !.supportedVersions = SortDescending(@),
                       !.numCiphers = CountString(Len(f.cipherSuites)),
                       !.numExtensions = CountString(Len(f.extensionsList)),
                       !.cipherSuites = sorted,
                       !.cipherSuitesString = Join(sorted, <<44>>)]],
          "awaitCipherHash")
  /\ RequestVarsUnchanged

\* The digest of the cipher string settles; on success the extension hash
\* input is built and truncatedHash is called again.
CipherHashSettles(self) ==
  /\ pc[self] = "awaitCipherHash" /\ running = 0
  /\ \E ok \in BOOLEAN, f \in {frame[self]} :
     \E hashExtensions \in {SortStrings(FilterHashExtensions(f.extensionsList))} :
     \E joined \in {Join(hashExtensions, <<44>>)} :
          IF ok
          THEN Suspend(self,
                 [frame EXCEPT ![self] =
                    [f EXCEPT !.ja4CipherHash = truncatedHash(f.cipherSuitesString),
                              !.hashExtensions = hashExtensions,
                              !.extensionHashInput =
                                 IF Len(f.signatureAlgorithms) > 0
                                 THEN joined \o <<95>> \o Join(f.signatureAlgorithms, <<44>>)
                                 ELSE joined]],
                 "awaitExtensionHash")
          ELSE Throw(self, frame, "HashError")
  /\ RequestVarsUnchanged

\* The digest of the extension hash input settles; on success the JA4 string
\* is built and returned.
ExtensionHashSettles(self) ==
  /\ pc[self] = "awaitExtensionHash" /\ running = 0
  /\ \E ok \in BOOLEAN, f \in {frame[self]} :
     \E ja4ExtensionHash \in {truncatedHash(f.extensionHashInput)} :
          IF ok
          THEN Suspend(self,
                 [frame EXCEPT ![self] =
                    [f EXCEPT !.ja4ExtensionHash = ja4ExtensionHash,
                              !.ja4Base = Ja4Base(f),
                              !.ja4 = Ja4Base(f) \o <<95>> \o f.ja4CipherHash
                                        \o <<95>> \o ja4ExtensionHash]],
                 "settled")
          ELSE Throw(self, frame, "HashError")
  /\ RequestVarsUnchanged

(* ----------------------------- onClientRequest ------------------------ *)

\* The guard on the ClientHello variable, with only undefined rejected.
NoClientHelloUndefinedOnly(hello) == ~hello.defined

\* if (!client_hello)
NoClientHello(hello) == ~Truthy(hello)

\* The handler up to the call of getJA4Fingerprint.
OnClientRequest(self) ==
  /\ pc[self] = "idle" /\ running = 0
  /\ \E hello \in {client_hello[self]} :
       IF NoClientHello(hello)
       THEN /\ outcome' = [outcome EXCEPT ![self] = Fulfilled(Undefined)]
            /\ pc' = [pc EXCEPT ![self] = "done"]
            /\ UNCHANGED <<frame, running>>
       ELSE \E stripped \in {AtobStripped(hello.value)} :
         IF AtobThrows(stripped)
         THEN /\ outcome' = [outcome EXCEPT ![self] = Rejected("InvalidCharacterError")]
              /\ pc' = [pc EXCEPT ![self] = "done"]
              /\ UNCHANGED <<frame, running>>
         ELSE /\ frame' = [frame EXCEPT ![self] =
                             [InitFrame EXCEPT
                                !.buffer = base64toUint8Array(stripped),
                                !.decoded = TRUE,
                                !.proto = IF Truthy(quic_version[self]) THEN "quic" ELSE "tcp"]]
              /\ pc' = [pc EXCEPT ![self] = "version"]
              /\ running' = self
              /\ UNCHANGED outcome
  /\ UNCHANGED <<client_hello, quic_version, ja4_fingerprint, setCalls>>

\* The handler after the await with the store moved out of the try block:
\* the variable is written whether or not the call threw.
ResumeStoresAnyway(self) ==
  /\ pc[self] = "settled" /\ running = 0
  /\ LET f == frame[self] IN
       /\ ja4_fingerprint' = [ja4_fingerprint EXCEPT ![self] = Str(f.ja4)]
       /\ setCalls' = [setCalls EXCEPT ![self] = @ + 1]
       /\ outcome' = [outcome EXCEPT ![self] =
                        IF f.error = "none" THEN Fulfilled(Str(f.ja4))
                        ELSE Fulfilled(Undefined)]
  /\ pc' = [pc EXCEPT ![self] = "done"]
  /\ UNCHANGED <<client_hello, quic_version, running, frame>>

\* The handler after the await of getJA4Fingerprint: store and return the
\* fingerprint, or log the caught error and return nothing.
Resume(self) ==
  /\ pc[self] = "settled" /\ running = 0
  /\ LET f == frame[self] IN
       IF f.error = "none"
       THEN /\ ja4_fingerprint' = [ja4_fingerprint EXCEPT ![self] = Str(f.ja4)]
            /\ setCalls' = [setCalls EXCEPT ![self] = @ + 1]
            /\ outcome' = [outcome EXCEPT ![self] = Fulfilled(Str(f.ja4))]
       ELSE /\ outcome' = [outcome EXCEPT ![self] = Fulfilled(Undefined)]
            /\ UNCHANGED <<ja4_fingerprint, setCalls>>
  /\ pc' = [pc EXCEPT ![self] = "done"]
  /\ UNCHANGED <<client_hello, quic_version, running, frame>>

Next ==
  \E self \in Requests :
    \/ OnClientRequest(self)
    \/ ReadVersion(self)
    \/ ReadSessionID(self)
    \/ ReadCipherSuitesLength(self)
    \/ CipherLoop(self)
    \/ ReadCompressionMethods(self)
    \/ ReadExtensionsLength(self)
    \/ ExtensionLoop(self)
    \/ Encode(self)
    \/ CipherHashSettles(self)
    \/ ExtensionHashSettles(self)
    \/ Resume(self)

Spec == Init /\ [][Next]_vars

SpecConcurrent == InitConcurrent /\ [][Next]_vars

\* Every enabled step is eventually taken: the event loop runs the thread
\* holder on, and the platform settles every digest.
FairSpec == InitLoops /\ [][Next]_vars /\ WF_vars(Next)

(* ------------------------------ properties ---------------------------- *)

\* getJA4Fingerprint returned a fingerprint for request r.
Returned(r) ==
  pc[r] \in {"settled", "done"} /\ frame[r].decoded /\ frame[r].error = "none"

\* The call for request r has passed the count and version computation.
Encoded(r) == frame[r].numCiphers # <<>>

\* The call for request r has built its extension hash input.
ExtensionInputBuilt(r) == frame[r].ja4CipherHash # <<>>

\* The 16 GREASE values and the hex digits, written out.
GreaseList ==
  { 2570, 6682, 10794, 14906, 19018, 23130, 27242, 31354,
    35466, 39578, 43690, 47802, 51914, 56026, 60138, 64250 }
HexDigits == <<48, 49, 50, 51, 52, 53, 54, 55, 56, 57, 97, 98, 99, 100, 101, 102>>
FourHex(v) ==
  << HexDigits[v \div 4096 + 1], HexDigits[((v \div 256) % 16) + 1],
     HexDigits[((v \div 16) % 16) + 1], HexDigits[(v % 16) + 1] >>
GreaseHex == { FourHex(g) : g \in GreaseList }
TwoDigits(n) == <<48 + (n \div 10), 48 + (n % 10)>>

\* The 16-bit big-endian values of a list of byte length `length` at offset
\* `start`, read two bytes at a time.
WireValues(buf, start, count) ==
  [k \in 1..count |-> buf[start + 2 * k - 1] * 256 + buf[start + 2 * k]]
DropGrease(values) == SelectSeq(values, LAMBDA v : v \notin GreaseList)
HexOfAll(values) == [k \in 1..Len(values) |-> FourHex(values[k])]

\* Every comma- or underscore-separated 4-character item of a hash input.
Items(str) == { SubSeq(str, 5 * k + 1, 5 * k + 4) : k \in 0..((Len(str) - 4) \div 5) }

(* C1: whenever a declared length exceeds the bytes remaining in the buffer
   the call ends in an error.  Stated for the length of an extension record:
   a call that returned a fingerprint never moved its cursor past the end of
   the buffer. *)
C1_LengthFieldsBoundsChecked ==
  \A r \in Requests :
    Returned(r) => frame[r].currentIndex <= Len(frame[r].buffer)

(* C2 as claimed: after any stage failure for a non-empty input the caller of
   onClientRequest sees an error (a rejected promise), and the fingerprint
   variable was not set. *)
C2_FailureSurfacedToCaller ==
  \A r \in Requests :
    (pc[r] = "done" /\ Truthy(client_hello[r])
       /\ (frame[r].error # "none" \/ ~frame[r].decoded))
    => (outcome[r].state = "rejected" /\ setCalls[r] = 0)

(* C2 as amended: a parse or hash failure is caught and logged and
   onClientRequest completes returning undefined; only a base64 decode failure
   is surfaced as an error.  In both cases setVariable is never called;
   setVariable is called only after all three stages succeeded and then
   exactly once, with the fingerprint that is returned. *)
C2_FailureHandling ==
  \A r \in Requests :
    /\ setCalls[r] <= 1
    /\ (frame[r].error # "none" \/ outcome[r].state = "rejected")
         => (setCalls[r] = 0 /\ ja4_fingerprint[r] = Undefined)
    /\ (pc[r] = "done" /\ frame[r].error # "none")
         => outcome[r] = Fulfilled(Undefined)
    /\ (pc[r] = "done" /\ Truthy(client_hello[r]) /\ ~frame[r].decoded)
         => (outcome[r].state = "rejected" /\ frame[r] = InitFrame)
    /\ setCalls[r] = 1
         => /\ pc[r] = "done" /\ frame[r].decoded /\ frame[r].error = "none"
            /\ Len(frame[r].ja4CipherHash) = 12 /\ Len(frame[r].ja4ExtensionHash) = 12
            /\ ja4_fingerprint[r] = Str(frame[r].ja4)
            /\ outcome[r] = Fulfilled(Str(frame[r].ja4))
    /\ (pc[r] = "done" /\ Returned(r)) => setCalls[r] = 1

C2_Witness ==
  \E r \in Requests :
    /\ pc[r] = "done" /\ frame[r].error = "HashError"
    /\ frame[r].ja4CipherHash # <<>>
    /\ outcome[r] = Fulfilled(Undefined) /\ setCalls[r] = 0

(* C3: with PMUSER_TLS_CLIENT_HELLO absent or empty, onClientRequest completes
   without an error and without a fingerprint, no decode, parse or hash step
   is taken, and setVariable is not called, whatever PMUSER_QUIC_VERSION is. *)
C3_NoClientHelloIsNoOp ==
  \A r \in Requests :
    (~client_hello[r].defined \/ client_hello[r].value = <<>>)
    => /\ pc[r] \in {"idle", "done"}
       /\ frame[r] = InitFrame
       /\ setCalls[r] = 0 /\ ja4_fingerprint[r] = Undefined
       /\ outcome[r] = IF pc[r] = "done" THEN Fulfilled(Undefined) ELSE Pending

C3_Witness ==
  \E r \in Requests :
    /\ client_hello[r] = Str(<<>>) /\ quic_version[r] = Str(<<49>>)
    /\ pc[r] = "done"

(* C4: no GREASE value is ever in the parsed cipher suites, extension types,
   signature algorithms or supported versions, nor in either hash input; and
   the values that are kept are kept in wire order: the cipher list is the
   GREASE-filtered list of the values read so far, and each record of the
   extension loop appends its own non-GREASE values at the end. *)
C4_NoGrease ==
  \A r \in Requests :
    LET f == frame[r] IN
      /\ \A k \in 1..Len(f.cipherSuites) : f.cipherSuites[k] \notin GreaseHex
      /\ \A k \in 1..Len(f.extensionsList) : f.extensionsList[k] \notin GreaseHex
      /\ \A k \in 1..Len(f.signatureAlgorithms) : f.signatureAlgorithms[k] \notin GreaseHex
      /\ \A k \in 1..Len(f.supportedVersions) : f.supportedVersions[k] \notin GreaseList
      /\ Items(f.cipherSuitesString) \cap GreaseHex = {}
      /\ Items(f.extensionHashInput) \cap GreaseHex = {}

C4_CipherWireOrder ==
  \A r \in Requests :
    pc[r] = "cipherLoop" =>
      LET f == frame[r] IN
        f.cipherSuites =
          HexOfAll(DropGrease(WireValues(f.buffer, f.currentIndex, f.i \div 2)))

C4_ExtensionWireOrder ==
  \A r \in Requests :
    (pc[r] = "extensionLoop" /\ pc'[r] = "extensionLoop" /\ frame'[r] # frame[r]) =>
      LET f == frame[r]
          g == frame'[r]
          buf == f.buffer
          cur == f.currentIndex
          type == buf[cur + 1] * 256 + buf[cur + 2]
      IN /\ g.extensionsList =
              IF type \in GreaseList THEN f.extensionsList
              ELSE Append(f.extensionsList, FourHex(type))
         /\ g.signatureAlgorithms =
              IF type = 13
              THEN f.signatureAlgorithms \o
                     HexOfAll(DropGrease(WireValues(buf, cur + 6,
                        (buf[cur + 5] * 256 + buf[cur + 6] + 1) \div 2)))
              ELSE f.signatureAlgorithms
         /\ g.supportedVersions =
              IF type = 43
              THEN f.supportedVersions \o
                     DropGrease(WireValues(buf, cur + 5, (buf[cur + 5] + 1) \div 2))
              ELSE f.supportedVersions
         /\ g.cipherSuites = f.cipherSuites

C4_GreaseFilteredInWireOrder ==
  /\ [](C4_NoGrease /\ C4_CipherWireOrder)
  /\ [][C4_ExtensionWireOrder]_vars

C4_Witness ==
  \E r \in Requests :
    /\ Returned(r)
    /\ frame[r].cipherSuitesLength = 4
    /\ frame[r].cipherSuitesString = FourHex(4865)
    /\ getUint16(frame[r].buffer, 43) = 2570

(* C5: in every returned fingerprint both counts are exactly 2 decimal digits
   and part a has exactly 10 characters, whatever the number of cipher suites
   and extension types. *)
C5_CountsAreTwoDigits ==
  \A r \in Requests :
    Returned(r) =>
      /\ Len(frame[r].numCiphers) = 2
      /\ Len(frame[r].numExtensions) = 2
      /\ Len(frame[r].ja4Base) = 10

(* C6: the version code is the table mapping of the largest GREASE-filtered
   supported version when that list is non-empty, whatever the legacy
   version; otherwise the table mapping of the legacy version; a value outside
   the table maps to "00". *)
VersionCode(v) ==
  CASE v = 2   -> <<115, 50>>
    [] v = 768 -> <<115, 51>>
    [] v = 769 -> <<49, 48>>
    [] v = 770 -> <<49, 49>>
    [] v = 771 -> <<49, 50>>
    [] v = 772 -> <<49, 51>>
    [] OTHER   -> <<48, 48>>

Largest(nums) ==
  CHOOSE m \in {nums[k] : k \in 1..Len(nums)} : \A k \in 1..Len(nums) : nums[k] <= m

C6_EffectiveVersion ==
  \A r \in Requests :
    Encoded(r) =>
      LET f == frame[r]
          legacy == f.buffer[5] * 256 + f.buffer[6]
          expected == IF f.supportedVersions # <<>>
                      THEN VersionCode(Largest(f.supportedVersions))
                      ELSE VersionCode(legacy)
      IN /\ f.tlsMappedVersion = expected
         /\ Returned(r) => SubSeq(f.ja4Base, 2, 3) = expected

C6_Witness ==
  \E r \in Requests :
    /\ Returned(r)
    /\ frame[r].buffer[5] * 256 + frame[r].buffer[6] = 769
    /\ Len(frame[r].supportedVersions) = 2
    /\ SubSeq(frame[r].ja4Base, 2, 3) = <<49, 51>>

(* C7: the ALPN code always has exactly 2 characters.  It is "00" as long as
   no ALPN record was seen; a record of type 0x0010 whose list length or first
   protocol length is 0 leaves it as it is; any other ALPN record sets it to
   the first and last byte of the first protocol when both are in 0x20..0x7E,
   and otherwise to the hex digit of the high nibble of the first byte
   followed by the hex digit of the low nibble of the last byte. *)
C7_TwoCharacters ==
  \A r \in Requests :
    LET f == frame[r] IN
      /\ f.sni # <<>> => Len(f.alpn) = 2
      /\ (f.sni # <<>> /\ \A k \in 1..Len(f.extensionsList) : f.extensionsList[k] # FourHex(16))
           => f.alpn = <<48, 48>>
      /\ Returned(r) => SubSeq(f.ja4Base, Len(f.ja4Base) - 1, Len(f.ja4Base)) = f.alpn

C7_AlpnRecord ==
  \A r \in Requests :
    (pc[r] = "extensionLoop" /\ pc'[r] = "extensionLoop" /\ frame'[r] # frame[r]) =>
      LET f == frame[r]
          buf == f.buffer
          cur == f.currentIndex
          type == buf[cur + 1] * 256 + buf[cur + 2]
          listLength == buf[cur + 5] * 256 + buf[cur + 6]
          protocolLength == buf[cur + 7]
          first == buf[cur + 8]
          last == buf[cur + 7 + protocolLength]
      IN frame'[r].alpn =
           IF type # 16 THEN f.alpn
           ELSE IF listLength = 0 THEN f.alpn
           ELSE IF protocolLength = 0 THEN f.alpn
           ELSE IF first \in 32..126 /\ last \in 32..126 THEN <<first, last>>
           ELSE <<HexDigits[(first \div 16) + 1], HexDigits[(last % 16) + 1]>>

C7_AlpnCode == []C7_TwoCharacters /\ [][C7_AlpnRecord]_vars

C7_Witness ==
  \E r \in Requests :
    /\ Returned(r)
    /\ frame[r].extensionsList = <<FourHex(16), FourHex(16)>>
    /\ frame[r].alpn = <<126, 126>>

(* C8: the string hashed into part c is the GREASE-filtered extension codes
   without 0000 and 0010, other duplicates kept, sorted lexicographically and
   joined with commas, followed, if and only if there are signature
   algorithms, by "_" and their codes joined with commas in wire order.  It
   therefore depends on the extension records only through the multiset of
   their types; the extension count in a counts SNI and ALPN too. *)
Occurrences(strs, x) == Cardinality({ k \in 1..Len(strs) : strs[k] = x })

RECURSIVE CommaJoined(_)
CommaJoined(strs) ==
  IF strs = <<>> THEN <<>>
  ELSE IF Len(strs) = 1 THEN strs[1]
  ELSE CommaJoined(SubSeq(strs, 1, Len(strs) - 1)) \o <<44>> \o strs[Len(strs)]

C8_ExtensionHashInput ==
  \A r \in Requests :
    ExtensionInputBuilt(r) =>
      LET f == frame[r]
          h == f.hashExtensions
          codes == { f.extensionsList[k] : k \in 1..Len(f.extensionsList) }
      IN /\ \A k \in 1..(Len(h) - 1) : ~LexLess(h[k + 1], h[k])
         /\ \A x \in codes \ {FourHex(0), FourHex(16)} :
              Occurrences(h, x) = Occurrences(f.extensionsList, x)
         /\ \A k \in 1..Len(h) : h[k] \in codes \ {FourHex(0), FourHex(16)}
         /\ f.extensionHashInput =
              IF f.signatureAlgorithms # <<>>
              THEN CommaJoined(h) \o <<95>> \o CommaJoined(f.signatureAlgorithms)
              ELSE CommaJoined(h)
         /\ Len(f.extensionsList) < 100 => f.numExtensions = TwoDigits(Len(f.extensionsList))
         /\ Returned(r) =>
              /\ f.ja4ExtensionHash = truncatedHash(f.extensionHashInput)
              /\ SubSeq(f.ja4, Len(f.ja4) - 11, Len(f.ja4)) = f.ja4ExtensionHash

\* "0000", "0010", "002b", "000d", "ff01" on the wire in some order give
\* "000d,002b,ff01_0804,0403" and the count 05.
C8_Witness ==
  \E r \in Requests :
    /\ Returned(r)
    /\ frame[r].extensionsList =
         <<FourHex(65281), FourHex(13), FourHex(16), FourHex(0), FourHex(43)>>
    /\ frame[r].extensionHashInput = <<48, 48, 48, 100, 44, 48, 48, 50, 98, 44, 102, 102, 48, 49, 95, 48, 56, 48, 52, 44, 48, 52, 48, 51>>
    /\ frame[r].numExtensions = <<48, 53>>

(* C9: invocations share no mutable state.  Two invocations on the same bytes
   and hint return the same string however their steps interleave; every
   invocation on the reference ClientHello returns what it returns when run
   alone; the final string is built from the invocation's own two completed
   hashes; and no step changes the locals of two invocations. *)
C9_SameInputSameResult ==
  \A r1, r2 \in Requests :
    (Returned(r1) /\ Returned(r2)
       /\ frame[r1].buffer = frame[r2].buffer /\ frame[r1].proto = frame[r2].proto)
    => frame[r1].ja4 = frame[r2].ja4

C9_AsWhenRunAlone ==
  \A r \in Requests :
    (Returned(r) /\ frame[r].buffer = BaseHello) =>
      /\ frame[r].ja4Base =
           (IF Truthy(quic_version[r]) THEN <<113>> ELSE <<116>>) \o <<49, 51, 100, 48, 50, 48, 53, 104, 50>>
      /\ frame[r].cipherSuitesString = <<48, 48, 102, 102, 44, 49, 51, 48, 49>>
      /\ frame[r].extensionHashInput = <<48, 48, 48, 100, 44, 48, 48, 50, 98, 44, 102, 102, 48, 49, 95, 48, 56, 48, 52, 44, 48, 52, 48, 51>>

C9_BuiltFromOwnHashes ==
  \A r \in Requests :
    Returned(r) =>
      /\ frame[r].ja4CipherHash = truncatedHash(frame[r].cipherSuitesString)
      /\ frame[r].ja4ExtensionHash = truncatedHash(frame[r].extensionHashInput)
      /\ Len(frame[r].ja4CipherHash) = 12 /\ Len(frame[r].ja4ExtensionHash) = 12
      /\ frame[r].ja4 = frame[r].ja4Base \o <<95>> \o frame[r].ja4CipherHash
                          \o <<95>> \o frame[r].ja4ExtensionHash

C9_OneInvocationPerStep ==
  \A r1, r2 \in Requests :
    r1 # r2 =>
      \/ (frame'[r1] = frame[r1] /\ setCalls'[r1] = setCalls[r1]
            /\ ja4_fingerprint'[r1] = ja4_fingerprint[r1] /\ outcome'[r1] = outcome[r1])
      \/ (frame'[r2] = frame[r2] /\ setCalls'[r2] = setCalls[r2]
            /\ ja4_fingerprint'[r2] = ja4_fingerprint[r2] /\ outcome'[r2] = outcome[r2])

C9_NoSharedState ==
  /\ [](C9_SameInputSameResult /\ C9_AsWhenRunAlone /\ C9_BuiltFromOwnHashes)
  /\ [][C9_OneInvocationPerStep]_vars

\* Two invocations on the same input, both suspended in the second hash.
C9_Witness ==
  \E r1, r2 \in Requests :
    /\ r1 # r2
    /\ pc[r1] = "awaitExtensionHash" /\ pc[r2] = "awaitExtensionHash"
    /\ frame[r1].buffer = BaseHello /\ frame[r2].buffer = BaseHello
    /\ frame[r1].proto = frame[r2].proto

(* C10: every call of getJA4Fingerprint eventually returns or throws; the
   cipher loop makes at most ceil(cipherSuitesLength / 2) iterations; every
   iteration of the extension loop moves the cursor forward by at least 4;
   and the cursor never moves backwards. *)
C10_CipherLoopBounded ==
  \A r \in Requests :
    pc[r] = "cipherLoop" =>
      /\ frame[r].i % 2 = 0
      /\ frame[r].i \div 2 <= (frame[r].cipherSuitesLength + 1) \div 2

C10_CursorAdvances ==
  \A r \in Requests :
    /\ (pc[r] = "extensionLoop" /\ pc'[r] = "extensionLoop" /\ frame'[r] # frame[r])
         => frame'[r].currentIndex >= frame[r].currentIndex + 4
    /\ pc[r] # "idle" => frame'[r].currentIndex >= frame[r].currentIndex

C10_Terminates ==
  /\ \A r \in Requests : (pc[r] = "version") ~> (pc[r] \in {"settled", "done"})
  /\ []C10_CipherLoopBounded
  /\ [][C10_CursorAdvances]_vars

\* The loop has consumed a zero-length GREASE record, the first of its list.
C10_Witness ==
  \E r \in Requests :
    /\ pc[r] = "extensionLoop"
    /\ frame[r].currentIndex >= 4
    /\ frame[r].currentIndex < frame[r].extensionsEndIndex
    /\ getUint16(frame[r].buffer, frame[r].currentIndex - 4) = 2570
    /\ getUint16(frame[r].buffer, frame[r].currentIndex - 2) = 0
    /\ frame[r].extensionsList = <<>>

====
